---- MODULE Spec2Model ----
(***************************************************************************)
(* NIFTY option-chain selector: the volume history tracker                 *)
(* (update_volume_history, calculate_volume_spike), the poll cycle         *)
(* (generate_option_dataframe in main.py, get_chain in app.py) and the     *)
(* scoring block at the end of the poll cycle.  main.py and app.py hold    *)
(* the same code up to names; line numbers below refer to main.py.         *)
(*                                                                         *)
(* Time: time.time() is read once per tracker call.  The clock is a        *)
(* variable that only the environment advances (Tick) and it never goes    *)
(* back; two calls may read the same value.                                *)
(***************************************************************************)
EXTENDS Integers, Sequences, FiniteSets, TLC

VARIABLES
    volume_history,  \* dict token -> list of (t, v): a function on the known tokens
    clock,           \* what time.time() returns now
    last,            \* the tracker call that returned last: [op, token, now, volume]
    spike,           \* what the last calculate_volume_spike returned
    pc,              \* position of the poll cycle: "idle", "record", "spike", "score"
    df,              \* the filtered contracts of the running cycle
    quotes,          \* the quote mapping of the running cycle
    i,               \* index of the row the loop of the running cycle is at
    data,            \* rows assembled so far by the running cycle
    fetch,           \* how the fetches of the last started cycle went
    result,          \* how the last cycle ended: "none", "empty", "raised", "scored"
    df_final,        \* the frame the last cycle returned
    cycles,          \* poll cycles started so far
    reported,        \* Quote Source: last volume it reported per token
    decreased        \* Quote Source: TRUE once it reported a lower volume than before

vars == <<volume_history, clock, last, spike, pc, df, quotes, i, data, fetch,
          result, df_final, cycles, reported, decreased>>

trackerVars == <<volume_history, last, spike>>
cycleVars == <<pc, df, quotes, i, data, fetch, result, df_final, cycles, reported, decreased>>

----------------------------------------------------------------------------
(* Bounds of the model *)

MaxTime == 310
MaxVol == 2
MaxSamples == 3

(* Program constants *)

RETENTION == 300
W10 == 10
W30 == 30
W60 == 60
W180 == 180
W300 == 300

Windows == {W10, W30, W60, W180, W300}

\* str(row["instrument_token"]) of the two contracts the catalogs below let through
Tokens == {ToString(101), ToString(102)}

\* the instants at which the clock is read: every window edge, and MaxTime
Instants == {t \in {0} \cup Windows \cup {MaxTime} : t <= MaxTime}

Volumes == 0..MaxVol

----------------------------------------------------------------------------
(* Volume history tracker *)

\* volume_history.get(token, [])
Get(d, token) == IF token \in DOMAIN d THEN d[token] ELSE <<>>

KeepSampleStrict(now, s) == now - s.t < RETENTION

\* the filter of the list comprehension: now - t <= 300
KeepSample(now, s) == now - s.t <= RETENTION

\* volume_history[token].append((now, current_volume))
AppendSample(h, s) == Append(h, s)

\* the history of token after update_volume_history(token, current_volume) at time now
Updated(d, token, now, current_volume) ==
    LET h1 == AppendSample(Get(d, token), [t |-> now, v |-> current_volume])
    IN  SelectSeq(h1, LAMBDA s : KeepSample(now, s))

update_volume_history(token, current_volume) ==
    /\ volume_history' =
          [k \in DOMAIN volume_history \cup {token} |->
              IF k = token THEN Updated(volume_history, token, clock, current_volume)
                           ELSE volume_history[k]]
    /\ last' = [op |-> "record", token |-> token, now |-> clock, volume |-> current_volume]
    /\ UNCHANGED spike

volume_window_strict(history, now, seconds) ==
    LET relevant == SelectSeq(history, LAMBDA s : now - s.t < seconds)
    IN  IF Len(relevant) >= 2
        THEN relevant[Len(relevant)].v - relevant[1].v
        ELSE 0

\* volume_window(seconds) over history at time now
volume_window(history, now, seconds) ==
    LET relevant == SelectSeq(history, LAMBDA s : now - s.t <= seconds)
    IN  IF Len(relevant) >= 2
        THEN relevant[Len(relevant)].v - relevant[1].v
        ELSE 0

SpikeOfSwapped(history, now) ==
    [vol_10s |-> volume_window(history, now, W10),
     vol_30s |-> volume_window(history, now, W60),
     vol_1m  |-> volume_window(history, now, W30),
     vol_3m  |-> volume_window(history, now, W180),
     vol_5m  |-> volume_window(history, now, W300)]

\* the dict calculate_volume_spike returns
SpikeOf(history, now) ==
    [vol_10s |-> volume_window(history, now, W10),
     vol_30s |-> volume_window(history, now, W30),
     vol_1m  |-> volume_window(history, now, W60),
     vol_3m  |-> volume_window(history, now, W180),
     vol_5m  |-> volume_window(history, now, W300)]

calculate_volume_spike_setdefault(token) ==
    /\ spike' = SpikeOf(Get(volume_history, token), clock)
    /\ last' = [op |-> "spikes", token |-> token, now |-> clock, volume |-> 0]
    /\ volume_history' = [k \in DOMAIN volume_history \cup {token} |-> Get(volume_history, k)]

calculate_volume_spike(token) ==
    /\ spike' = SpikeOf(Get(volume_history, token), clock)
    /\ last' = [op |-> "spikes", token |-> token, now |-> clock, volume |-> 0]
    /\ UNCHANGED volume_history

\* samples stored over all tokens
Stored == LET RECURSIVE Sum(_)
              Sum(S) == IF S = {} THEN 0
                        ELSE LET k == CHOOSE x \in S : TRUE
                             IN  Len(volume_history[k]) + Sum(S \ {k})
          IN  Sum(DOMAIN volume_history)

\* the environment: time passes
Tick(t) ==
    /\ t > clock
    /\ t <= MaxTime
    /\ clock' = t
    /\ UNCHANGED <<trackerVars, cycleVars>>

\* a caller records a sample
Record(token, volume) ==
    /\ pc = "idle"
    /\ Stored < MaxSamples
    /\ update_volume_history(token, volume)
    /\ UNCHANGED <<clock, cycleVars>>

\* a caller asks for the spike deltas of a token
Spikes(token) ==
    /\ pc = "idle"
    /\ calculate_volume_spike(token)
    /\ UNCHANGED <<clock, cycleVars>>

ZeroSpike == [vol_10s |-> 0, vol_30s |-> 0, vol_1m |-> 0, vol_3m |-> 0, vol_5m |-> 0]

Init ==
    /\ volume_history = <<>>
    /\ clock = 0
    /\ last = [op |-> "none", token |-> ToString(101), now |-> 0, volume |-> 0]
    /\ spike = ZeroSpike
    /\ pc = "idle"
    /\ df = <<>>
    /\ quotes = <<>>
    /\ i = 1
    /\ data = <<>>
    /\ fetch = "none"
    /\ result = "none"
    /\ df_final = <<>>
    /\ cycles = 0
    /\ reported = <<>>
    /\ decreased = FALSE

Next ==
    \/ \E t \in Instants : Tick(t)
    \/ \E token \in Tokens, volume \in Volumes : Record(token, volume)
    \/ \E token \in Tokens : Spikes(token)

Spec == Init /\ [][Next]_vars

----------------------------------------------------------------------------
(* Properties of the tracker, checked under Spec *)

\* the positions of the samples of h that are within window w of now
Qualifying(h, now, w) == {k \in 1..Len(h) : now - h[k].t <= w}

\* the newest of the samples at positions Q: the greatest timestamp, and among
\* equal timestamps the one stored last
NewestOf(h, Q) ==
    CHOOSE k \in Q : \A j \in Q : h[j].t < h[k].t \/ (h[j].t = h[k].t /\ j <= k)

\* the oldest of the samples at positions Q
OldestOf(h, Q) ==
    CHOOSE k \in Q : \A j \in Q : h[j].t > h[k].t \/ (h[j].t = h[k].t /\ j >= k)

NewestMinusOldest(h, now, w) ==
    LET Q == Qualifying(h, now, w)
    IN  IF Cardinality(Q) >= 2 THEN h[NewestOf(h, Q)].v - h[OldestOf(h, Q)].v ELSE 0

\* the delta a returned spike dict holds for window w
DeltaFor(sp, w) ==
    CASE w = W10 -> sp.vol_10s
      [] w = W30 -> sp.vol_30s
      [] w = W60 -> sp.vol_1m
      [] w = W180 -> sp.vol_3m
      [] w = W300 -> sp.vol_5m

\* samples in time order with volumes that never decrease
Monotone(h) == \A j, k \in 1..Len(h) : j < k => (h[j].t <= h[k].t /\ h[j].v <= h[k].v)

\* C1: a record call leaves in the history of its token exactly the earlier
\* samples of age <= 300 s (age exactly 300 kept, older ones gone), in their
\* order, followed by the sample just recorded.
C1_RecordRetention ==
    [][\A tok \in Tokens :
          LET old == Get(volume_history, tok)
              new == Get(volume_history', tok)
              now == last'.now
              kept == {k \in 1..Len(old) : now - old[k].t <= 300}
          IN  new # old =>
                /\ last'.op = "record" /\ last'.token = tok
                /\ Len(new) = Cardinality(kept) + 1
                /\ new[Len(new)] = [t |-> now, v |-> last'.volume]
                /\ \A k \in 1..Len(new) : now - new[k].t <= 300
                /\ \A k \in kept : \E m \in 1..(Len(new) - 1) : new[m] = old[k]
                /\ \A m, n \in 1..(Len(new) - 1) : m < n => new[m].t <= new[n].t]_vars

\* C1 witness: a record has just returned and a sample of age exactly 300 s is
\* still stored before the new one.
C1_Witness ==
    /\ last.op = "record"
    /\ LET h == Get(volume_history, last.token)
       IN  /\ Len(h) >= 2
           /\ last.now - h[1].t = 300
           /\ h[Len(h)].t = last.now

\* C2: each delta of a returned spike dict is the volume of the newest stored
\* sample within its window minus that of the oldest one when two or more
\* samples are within the window, and 0 otherwise (unknown token, one sample).
C2_WindowedDelta ==
    last.op = "spikes" =>
        \A w \in Windows :
            DeltaFor(spike, w) = NewestMinusOldest(Get(volume_history, last.token), last.now, w)

\* C2 witness: three samples stored, a window that holds two of them with a
\* non-zero delta and a wider window with a different delta.
C2_Witness ==
    /\ last.op = "spikes"
    /\ Len(Get(volume_history, last.token)) = 3
    /\ spike.vol_10s # 0
    /\ spike.vol_5m # spike.vol_10s
    /\ Cardinality(Qualifying(Get(volume_history, last.token), last.now, W10)) = 2

\* C8: calculate_volume_spike leaves the history map as it is: no sample added
\* or pruned and no entry created for an unknown token.
C8_SpikesPure ==
    [][last'.op = "spikes" => volume_history' = volume_history]_vars

\* C8 witness: the spikes of a token without history were asked for while
\* another token has samples, and the map still has no entry for it.
C8_Witness ==
    /\ last.op = "spikes"
    /\ last.token \notin DOMAIN volume_history
    /\ DOMAIN volume_history # {}
    /\ spike = ZeroSpike

\* C10: when the history of the token is in time order with non-decreasing
\* volumes, the five deltas of one spikes call are nested.
C10_Nested ==
    (last.op = "spikes" /\ Monotone(Get(volume_history, last.token))) =>
        /\ 0 <= spike.vol_10s
        /\ spike.vol_10s <= spike.vol_30s
        /\ spike.vol_30s <= spike.vol_1m
        /\ spike.vol_1m <= spike.vol_3m
        /\ spike.vol_3m <= spike.vol_5m

\* C10 witness: a monotone history whose 1-minute delta is positive and
\* smaller than its 5-minute delta.
C10_Witness ==
    /\ last.op = "spikes"
    /\ Monotone(Get(volume_history, last.token))
    /\ 0 < spike.vol_1m
    /\ spike.vol_1m < spike.vol_5m

----------------------------------------------------------------------------
(* Exact rationals <<numerator, denominator>>, denominator > 0, in lowest   *)
(* terms: the values of the score columns.                                  *)

Abs(x) == IF x < 0 THEN -x ELSE x

RECURSIVE GCD(_, _)
GCD(a, b) == IF b = 0 THEN a ELSE GCD(b, a % b)

\* n / d for d # 0
Rat(n, d) ==
    LET g == GCD(Abs(n), Abs(d))
        sg == IF d < 0 THEN -1 ELSE 1
    IN  <<(sg * n) \div g, (sg * d) \div g>>

RatAdd(a, b) == Rat(a[1] * b[2] + b[1] * a[2], a[2] * b[2])
RatSub(a, b) == Rat(a[1] * b[2] - b[1] * a[2], a[2] * b[2])
RatMul(a, b) == Rat(a[1] * b[1], a[2] * b[2])
RatDiv(a, b) == Rat(a[1] * b[2], a[2] * b[1])
RatLess(a, b) == a[1] * b[2] < b[1] * a[2]
RatLeq(a, b) == a[1] * b[2] <= b[1] * a[2]
RatOfInt(n) == <<n, 1>>

----------------------------------------------------------------------------
(* IEEE-754 binary64, round to nearest even, for the burst threshold.       *)
(*                                                                          *)
(* avg_spike * 1.5 is compared with the integer delta columns, so whether a *)
(* row whose delta EQUALS 1.5 times the mean is flagged depends on how the  *)
(* products by 0.2 and 0.3, the sums, the division by the row count and the *)
(* product by 1.5 round.  A double x is held exactly as the record          *)
(* [p, q, k] with x = p/q + k/(q * 2^62): p/q is the value real arithmetic  *)
(* would give and k the accumulated rounding error.  Every double met here  *)
(* is 0 or a multiple of 2^-62, so k is an integer, and it is small.        *)

\* the double nearest to 0.2 is 1/5 + 1/(5 * 2^54)
F02 == [p |-> 2, q |-> 10, k |-> 512]
\* the double nearest to 0.3 is 3/10 - 1/(5 * 2^54)
F03 == [p |-> 3, q |-> 10, k |-> -512]
\* 0.5 is a double
F05 == [p |-> 5, q |-> 10, k |-> 0]
FZero == [p |-> 0, q |-> 10, k |-> 0]

RECURSIVE Pow2(_)
Pow2(n) == IF n = 0 THEN 1 ELSE 2 * Pow2(n - 1)

\* 2^j modulo m, by squaring
RECURSIVE Pow2Mod(_, _)
Pow2Mod(j, m) ==
    IF j = 0 THEN 1 % m
    ELSE LET h == Pow2Mod(j \div 2, m)
         IN  (h * h * (IF j % 2 = 1 THEN 2 ELSE 1)) % m

\* the e with 2^e <= a/q < 2^(e+1), for a, q > 0
Log2Floor(a, q) ==
    LET RECURSIVE Up(_), Down(_)
        Up(e) == IF a >= 2 * q * Pow2(e) THEN Up(e + 1) ELSE e
        Down(e) == IF a * Pow2(e) < q THEN Down(e + 1) ELSE -e
    IN  IF a >= q THEN Up(0) ELSE Down(1)

\* the double nearest to the real x = p/q + k/(q * 2^62), ties to even.
\* A result with p = 0 is below 2^-9 in magnitude: it is an exact difference
\* of doubles or a quotient of one, and is kept as it is (its rounding is
\* below 2^-62 and cannot change its sign or a comparison with an integer).
FRound(x) ==
    IF x.p = 0 THEN x
    ELSE LET sg == IF x.p > 0 THEN 1 ELSE -1
             a == sg * x.p
             kk == sg * x.k
             e0 == Log2Floor(a, x.q)
             onEdge == IF e0 >= 0 THEN a = x.q * Pow2(e0) ELSE a * Pow2(-e0) = x.q
             e == IF kk < 0 /\ onEdge THEN e0 - 1 ELSE e0
             \* one unit in the last place is 2^(e-52) = sh / 2^62
             sh == Pow2(10 + e)
             r2 == ((a % (2 * x.q)) * Pow2Mod(52 - e, 2 * x.q)) % (2 * x.q)
             rho == r2 % x.q
             odd == r2 \div x.q
             fn == rho * sh + kk
             fd == x.q * sh
             up == (2 * fn + fd) \div (2 * fd)
             tie == (2 * fn + fd) % (2 * fd) = 0
             r == IF tie /\ (odd + up) % 2 = 1 THEN up - 1 ELSE up
         IN  [p |-> x.p, q |-> x.q, k |-> sg * sh * (x.q * r - rho)]

\* float(d) * c for an integer column value d and a double c
FMulInt(d, c) == FRound([p |-> d * c.p, q |-> c.q, k |-> d * c.k])
\* x + y for doubles over the same q
FAdd(x, y) == FRound([p |-> x.p + y.p, q |-> x.q, k |-> x.k + y.k])
\* x / n for a positive integer n
FDivInt(x, n) == FRound([p |-> x.p, q |-> x.q * n, k |-> x.k])
\* x * 1.5
FMul15(x) == FRound([p |-> 3 * x.p, q |-> 2 * x.q, k |-> 3 * x.k])
\* d > x for an integer column value d and a double x
FIntGreater(d, x) == d * x.q - x.p > 0 \/ (d * x.q - x.p = 0 /\ 0 > x.k)

----------------------------------------------------------------------------
(* The scoring block of the poll cycle *)

MaxOfSet(S) == CHOOSE x \in S : \A y \in S : y <= x
MinOfSet(S) == CHOOSE x \in S : \A y \in S : x <= y

\* Series.max() of a column, given as the set of its values
ColumnMax(S) == CHOOSE x \in S : \A y \in S : RatLeq(y, x)

Or1NonPositive(m) == IF m[1] <= 0 THEN <<1, 1>> ELSE m

\* (m or 1): 1 when m is 0, m otherwise
Or1(m) == IF m[1] = 0 THEN <<1, 1>> ELSE m

\* column / (column.max() or 1), for one value x of a column with maximum m
Normalized(x, m) == RatDiv(x, Or1(m))

\* 10 * (vol_10s * 0.2 + vol_30s * 0.3 + vol_1m * 0.5) in real arithmetic
Tenths(row) == 2 * row.vol_10s + 3 * row.vol_30s + 5 * row.vol_1m

\* the vol_spike_score column as binary64 computes it, left to right
SpikeScoreF(row) ==
    FAdd(FAdd(FMulInt(row.vol_10s, F02), FMulInt(row.vol_30s, F03)), FMulInt(row.vol_1m, F05))

\* Series.mean(): the sum of the column, accumulated in row order, over the count
RECURSIVE SumF(_, _)
SumF(rows, n) == IF n = 0 THEN FZero ELSE FAdd(SumF(rows, n - 1), SpikeScoreF(rows[n]))

MeanF(rows) == FDivInt(SumF(rows, Len(rows)), Len(rows))

\* (vol_10s > avg_spike * 1.5) | (vol_30s > avg_spike * 1.5) | (vol_1m > avg_spike * 1.5)
Burst(row, threshold) ==
    \/ FIntGreater(row.vol_10s, threshold)
    \/ FIntGreater(row.vol_30s, threshold)
    \/ FIntGreater(row.vol_1m, threshold)

CompositeOfFour(vs, os, ocs, ivs, sn) ==
    RatMul(RatAdd(RatAdd(RatAdd(RatAdd(vs, os), ocs), ivs), sn), <<1, 4>>)

\* volume_score * 0.2 + oi_score * 0.2 + oi_change_score * 0.2 + iv_score * 0.2 + spike_norm * 0.2
Composite(vs, os, ocs, ivs, sn) ==
    RatMul(RatAdd(RatAdd(RatAdd(RatAdd(vs, os), ocs), ivs), sn), <<1, 5>>)

\* the rows of df_final with the score columns added, before the sort.
\* vol_spike_score is held as the exact rational; the confidence column
\* (score * 100 rounded to 2 places) is left out.
Scored(rows) ==
    LET n == Len(rows)
        col(f) == {RatOfInt(rows[k][f]) : k \in 1..n}
        maxVolume == ColumnMax(col("volume"))
        maxOi == ColumnMax(col("oi"))
        maxOiChange == ColumnMax(col("oi_change"))
        maxIv == ColumnMax(col("iv"))
        vol_spike_score(k) == Rat(Tenths(rows[k]), 10)
        maxSpike == ColumnMax({vol_spike_score(k) : k \in 1..n})
        threshold == FMul15(MeanF(rows))
        scoredRow(k) ==
            LET r == rows[k]
                vs == Normalized(RatOfInt(r.volume), maxVolume)
                os == Normalized(RatOfInt(r.oi), maxOi)
                ocs == Normalized(RatOfInt(r.oi_change), maxOiChange)
                ivs == Normalized(RatOfInt(r.iv), maxIv)
                spike_norm == Normalized(vol_spike_score(k), maxSpike)
            IN  [index |-> k - 1, symbol |-> r.symbol, strike |-> r.strike, type |-> r.type,
                 ltp |-> r.ltp, volume |-> r.volume, oi |-> r.oi,
                 oi_change |-> r.oi_change, iv |-> r.iv,
                 vol_10s |-> r.vol_10s, vol_30s |-> r.vol_30s, vol_1m |-> r.vol_1m,
                 vol_3m |-> r.vol_3m, vol_5m |-> r.vol_5m,
                 volume_score |-> vs, oi_score |-> os, oi_change_score |-> ocs,
                 iv_score |-> ivs, vol_spike_score |-> vol_spike_score(k),
                 score |-> Composite(vs, os, ocs, ivs, spike_norm),
                 volume_power |-> IF Burst(r, threshold) THEN "VOLUME BURST" ELSE ""]
    IN  [k \in 1..n |-> scoredRow(k)]

IndexPermutations(n) == {f \in [1..n -> 1..n] : \A a, b \in 1..n : a # b => f[a] # f[b]}

\* df_final.sort_values("score", ascending=False): the default kind is
\* quicksort, which does not keep rows of equal score in their input order,
\* so every descending arrangement of the rows is a possible result
SortedByScore(rows) ==
    {f \in {[k \in 1..Len(rows) |-> rows[perm[k]]] : perm \in IndexPermutations(Len(rows))} :
        \A k \in 1..(Len(rows) - 1) : RatLeq(f[k + 1].score, f[k].score)}

----------------------------------------------------------------------------
(* The poll cycle: generate_option_dataframe (main.py), get_chain (app.py) *)

MaxCycles == 2

INDEX == "NIFTY"
STRIKE_RANGE == 800
MAX_CONTRACTS == 80

\* segments s with s.str.contains("OPT")
SegmentsWithOPT == {"NFO-OPT", "BFO-OPT"}

Contract(name, segment, expiry, strike, token, symbol, type) ==
    [name |-> name, segment |-> segment, expiry |-> expiry, strike |-> strike,
     instrument_token |-> token, tradingsymbol |-> symbol, instrument_type |-> type]

\* what kite.instruments() may return: the whole market, a market without
\* options on the index, and one whose nearest expiry has no strike in range
Catalogs ==
    {<<Contract("NIFTY", "NFO-OPT", 2, 20000, 103, "NIFTY-2-20000CE", "CE"),
       Contract("NIFTY", "NFO-OPT", 1, 20000, 101, "NIFTY-1-20000CE", "CE"),
       Contract("BANKNIFTY", "NFO-OPT", 1, 20000, 104, "BANKNIFTY-1-20000CE", "CE"),
       Contract("NIFTY", "NFO-FUT", 1, 0, 105, "NIFTY-1-FUT", "FUT"),
       Contract("NIFTY", "NFO-OPT", 1, 21000, 106, "NIFTY-1-21000PE", "PE"),
       Contract("NIFTY", "NFO-OPT", 1, 20100, 102, "NIFTY-1-20100PE", "PE")>>,
     <<Contract("BANKNIFTY", "NFO-OPT", 1, 20000, 104, "BANKNIFTY-1-20000CE", "CE"),
       Contract("NIFTY", "NFO-FUT", 1, 0, 105, "NIFTY-1-FUT", "FUT")>>,
     <<Contract("NIFTY", "NFO-OPT", 1, 21000, 106, "NIFTY-1-21000PE", "PE"),
       Contract("NIFTY", "NFO-OPT", 2, 20000, 103, "NIFTY-2-20000CE", "CE")>>}

\* what get_price() may return: the index price, or 0 when kite.ltp fails
Prices == {0, 20050}

\* the fields of a quote besides the volume
QuoteFacts ==
    {[last_price |-> 50, oi |-> 0, oi_day_high |-> 0, oi_day_low |-> 0, implied_volatility |-> 0],
     [last_price |-> 55, oi |-> 2, oi_day_high |-> 3, oi_day_low |-> 1, implied_volatility |-> 1]}

QuoteRecords ==
    {[last_price |-> f.last_price, volume |-> v, oi |-> f.oi, oi_day_high |-> f.oi_day_high,
      oi_day_low |-> f.oi_day_low, implied_volatility |-> f.implied_volatility] :
        f \in QuoteFacts, v \in Volumes}

\* what kite.quote(tokens) may return: quotes for some or all of the tokens
QuoteMappings(tokens) == UNION {[S -> QuoteRecords] : S \in SUBSET tokens}

\* q.get(field, default) on a quote dict
QGet(q, field, default) == IF field \in DOMAIN q THEN q[field] ELSE default

\* (name == INDEX) & segment.str.contains("OPT")
IsIndexOption(c) == c.name = INDEX /\ c.segment \in SegmentsWithOPT

\* df.head(n)
Head_n(s, n) == SubSeq(s, 1, IF Len(s) < n THEN Len(s) ELSE n)

\* the contracts left by the expiry and strike filters, for a non-empty df
NearStrikes(options, index_price) ==
    LET expiry == MinOfSet({options[k].expiry : k \in 1..Len(options)})
        nearest == SelectSeq(options, LAMBDA c : c.expiry = expiry)
    IN  Head_n(SelectSeq(nearest, LAMBDA c : /\ c.strike > index_price - STRIKE_RANGE
                                              /\ c.strike < index_price + STRIKE_RANGE),
               MAX_CONTRACTS)

\* the row appended to data for contract c with quote q
Row(c, q, volume, sp) ==
    [symbol |-> c.tradingsymbol, strike |-> c.strike, type |-> c.instrument_type,
     ltp |-> QGet(q, "last_price", 0), volume |-> volume, oi |-> QGet(q, "oi", 0),
     oi_change |-> QGet(q, "oi_day_high", 0) - QGet(q, "oi_day_low", 0),
     iv |-> QGet(q, "implied_volatility", 0),
     vol_10s |-> sp.vol_10s, vol_30s |-> sp.vol_30s, vol_1m |-> sp.vol_1m,
     vol_3m |-> sp.vol_3m, vol_5m |-> sp.vol_5m]

\* the cycle is over: its locals are gone
Return(how) ==
    /\ result' = how
    /\ pc' = "idle"
    /\ df' = <<>>
    /\ quotes' = <<>>
    /\ i' = 1
    /\ data' = <<>>

\* the Quote Source answers with mapping q
SourceReports(q) ==
    /\ reported' = [k \in DOMAIN reported \cup DOMAIN q |->
                       IF k \in DOMAIN q THEN q[k].volume ELSE reported[k]]
    /\ decreased' = (decreased \/ \E k \in DOMAIN q \cap DOMAIN reported :
                                      q[k].volume < reported[k])

\* kite.instruments() raises: nothing in the cycle catches it
CatalogFails ==
    /\ pc = "idle"
    /\ cycles < MaxCycles
    /\ cycles' = cycles + 1
    /\ fetch' = "catalog_failed"
    /\ df_final' = <<>>
    /\ Return("raised")
    /\ UNCHANGED <<clock, trackerVars, reported, decreased>>

\* the cycle from its start to the quote fetch
PollStart(instruments, index_price) ==
    /\ pc = "idle"
    /\ cycles < MaxCycles
    /\ cycles' = cycles + 1
    /\ df_final' = <<>>
    /\ UNCHANGED <<clock, trackerVars>>
    /\ LET options == SelectSeq(instruments, IsIndexOption)
       IN  IF options = <<>>
           THEN \* if df.empty: return pd.DataFrame()
                /\ fetch' = "no_contract"
                /\ Return("empty")
                /\ UNCHANGED <<reported, decreased>>
           ELSE LET near == NearStrikes(options, index_price)
                    tokens == {ToString(near[k].instrument_token) : k \in 1..Len(near)}
                IN  \/ \* kite.quote(tokens) raises: return pd.DataFrame()
                       /\ fetch' = "quote_failed"
                       /\ Return("empty")
                       /\ UNCHANGED <<reported, decreased>>
                    \/ \E q \in QuoteMappings(tokens) :
                          /\ SourceReports(q)
                          /\ IF near = <<>>
                             THEN \* no row: df_final.empty, return df_final
                                  /\ fetch' = "no_contract"
                                  /\ Return("empty")
                             ELSE /\ fetch' = "ok"
                                  /\ df' = near
                                  /\ quotes' = q
                                  /\ i' = 1
                                  /\ data' = <<>>
                                  /\ pc' = "record"
                                  /\ UNCHANGED result

\* the loop body up to update_volume_history(token, volume)
LoopRecord ==
    /\ pc = "record"
    /\ LET token == ToString(df[i].instrument_token)
           q == Get(quotes, token)
       IN  update_volume_history(token, QGet(q, "volume", 0))
    /\ pc' = "spike"
    /\ UNCHANGED <<clock, df, quotes, i, data, fetch, result, df_final, cycles, reported, decreased>>

\* the rest of the loop body: calculate_volume_spike(token) and data.append
LoopSpike ==
    /\ pc = "spike"
    /\ LET token == ToString(df[i].instrument_token)
           q == Get(quotes, token)
       IN  /\ calculate_volume_spike(token)
           /\ data' = Append(data, Row(df[i], q, QGet(q, "volume", 0), spike'))
    /\ i' = i + 1
    /\ pc' = IF i = Len(df) THEN "score" ELSE "record"
    /\ UNCHANGED <<clock, df, quotes, fetch, result, df_final, cycles, reported, decreased>>

\* the scoring block and the sort
ScoreStep ==
    /\ pc = "score"
    /\ df_final' \in SortedByScore(Scored(data))
    /\ Return("scored")
    /\ UNCHANGED <<clock, trackerVars, fetch, cycles, reported, decreased>>

\* the instants at which the clock is read during poll cycles
PollInstants == {t \in {0, W10, W60, MaxTime} : t <= MaxTime}

NextPoll ==
    \/ \E t \in PollInstants : Tick(t)
    \/ CatalogFails
    \/ \E instruments \in Catalogs, index_price \in Prices : PollStart(instruments, index_price)
    \/ LoopRecord
    \/ LoopSpike
    \/ ScoreStep

SpecPoll == Init /\ [][NextPoll]_vars

----------------------------------------------------------------------------
(* Properties of the poll cycle, checked under SpecPoll *)

\* the volumes of h never decrease along the list
VolumesNonDecreasing(h) == \A j, k \in 1..Len(h) : j < k => h[j].v <= h[k].v

\* C3: a cycle whose catalog fetch or quote fetch fails, or whose filters
\* leave no contract, returns an empty result, lets no exception escape and
\* leaves the volume history as it was.
C3_FailedCycleIsEmpty ==
    [][(cycles' = cycles + 1 /\ fetch' \in {"catalog_failed", "quote_failed", "no_contract"})
          => (result' = "empty" /\ pc' = "idle" /\ volume_history' = volume_history)]_vars

\* C9: as long as the Quote Source never reported a lower volume for a token
\* than it did before, the stored volumes of every token are non-decreasing
\* and every spike delta computed is >= 0, also in cycles whose quote mapping
\* lacks an entry for a token of the filtered universe.
C9_MonotoneVolumes ==
    ~decreased =>
        /\ \A tok \in DOMAIN volume_history : VolumesNonDecreasing(volume_history[tok])
        /\ \A w \in Windows : DeltaFor(spike, w) >= 0

----------------------------------------------------------------------------
(* The scoring block on its own: the batch is drawn from bounded sets and   *)
(* the cycle is at its scoring step.                                        *)

MaxRows == 2
MaxRaw == 1
MaxDelta == 6

\* (vol_10s, vol_30s, vol_1m) of a row: no change, a steady rise, a rise that
\* slowed down, and a fall
DeltaTriples == {<<0, 0, 0>>, <<1, 1, 1>>, <<0, 1, 2>>, <<-1, -1, -1>>}

\* deltas of a history whose volumes never decrease
NestedTriples == {d \in (0..MaxDelta) \X (0..MaxDelta) \X (0..MaxDelta) : d[1] <= d[2] /\ d[2] <= d[3]}

ScoreInputs ==
    [volume : 0..MaxRaw, oi : 0..MaxRaw, oi_change : 0..MaxRaw, iv : 0..MaxRaw,
     deltas : DeltaTriples]

BurstInputs == [volume : {1}, oi : {1}, oi_change : {0}, iv : {1}, deltas : NestedTriples]

\* the row of the k-th contract of the batch
InputRow(k, x) ==
    [symbol |-> ToString(100 + k), strike |-> 20000, type |-> "CE", ltp |-> 50,
     volume |-> x.volume, oi |-> x.oi, oi_change |-> x.oi_change, iv |-> x.iv,
     vol_10s |-> x.deltas[1], vol_30s |-> x.deltas[2], vol_1m |-> x.deltas[3],
     vol_3m |-> x.deltas[3], vol_5m |-> x.deltas[3]]

Batches(inputs) ==
    {{[k \in 1..n |-> InputRow(k, b[k])] : b \in [1..n -> inputs]} : n \in 1..MaxRows}

AtScoring(batches) ==
    /\ volume_history = <<>>
    /\ clock = 0
    /\ last = [op |-> "none", token |-> ToString(101), now |-> 0, volume |-> 0]
    /\ spike = ZeroSpike
    /\ pc = "score"
    /\ df = <<>>
    /\ quotes = <<>>
    /\ i = 1
    /\ data \in batches
    /\ fetch = "ok"
    /\ result = "none"
    /\ df_final = <<>>
    /\ cycles = 1
    /\ reported = <<>>
    /\ decreased = FALSE

InitScore == AtScoring(UNION Batches(ScoreInputs))
InitBurst == AtScoring(UNION Batches(BurstInputs))

NextScore == ScoreStep

SpecScore == InitScore /\ [][NextScore]_vars
SpecBurst == InitBurst /\ [][NextScore]_vars

----------------------------------------------------------------------------
(* Properties of the scoring block, checked under SpecScore and SpecBurst *)

Factors == {"volume", "oi", "oi_change", "iv", "spike"}

RowsOf(f) == {f[k] : k \in 1..Len(f)}

\* the raw value of a factor in a scored row
RawOf(r, factor) == IF factor = "spike" THEN r.vol_spike_score ELSE RatOfInt(r[factor])

\* the normalized score of a factor in a scored row; that of the spike score
\* is not a column, it is what the composite score holds besides the four others
NormOf(r, factor) ==
    CASE factor = "volume" -> r.volume_score
      [] factor = "oi" -> r.oi_score
      [] factor = "oi_change" -> r.oi_change_score
      [] factor = "iv" -> r.iv_score
      [] factor = "spike" ->
            RatSub(RatMul(r.score, <<5, 1>>),
                   RatAdd(RatAdd(r.volume_score, r.oi_score),
                          RatAdd(r.oi_change_score, r.iv_score)))

\* the greatest raw value of a factor over the rows of a frame
BatchMaximum(f, factor) ==
    CHOOSE m \in {RawOf(r, factor) : r \in RowsOf(f)} :
        \A r \in RowsOf(f) : ~RatLess(m, RawOf(r, factor))

\* no raw input of the frame is negative
NoNegativeInput(f) ==
    \A r \in RowsOf(f) :
        /\ r.volume >= 0 /\ r.oi >= 0 /\ r.oi_change >= 0 /\ r.iv >= 0
        /\ r.vol_10s >= 0 /\ r.vol_30s >= 0 /\ r.vol_1m >= 0

\* C4 as stated: for each factor and for the spike score, when the batch
\* maximum is 0 the normalized score of every row is 0, and otherwise it is
\* the raw value divided by the batch maximum.
C4_ZeroGuardGivesZero ==
    result = "scored" =>
        \A factor \in Factors : \A r \in RowsOf(df_final) :
            LET m == BatchMaximum(df_final, factor)
            IN  IF m = <<0, 1>>
                THEN NormOf(r, factor) = <<0, 1>>
                ELSE RatMul(NormOf(r, factor), m) = RawOf(r, factor)

\* C4 amended: when the batch maximum is 0 the divisor is 1, so the normalized
\* score of a row is its raw value, which is 0 for every row when no raw value
\* of the factor is negative; otherwise it is the raw value divided by the
\* batch maximum.
C4_ZeroGuardDividesByOne ==
    result = "scored" =>
        \A factor \in Factors : \A r \in RowsOf(df_final) :
            LET m == BatchMaximum(df_final, factor)
            IN  IF m = <<0, 1>>
                THEN /\ NormOf(r, factor) = RawOf(r, factor)
                     /\ (\A x \in RowsOf(df_final) : RawOf(x, factor)[1] >= 0)
                            => NormOf(r, factor) = <<0, 1>>
                ELSE RatMul(NormOf(r, factor), m) = RawOf(r, factor)

\* C4 witness: a scored batch with a factor whose maximum is 0 (one with a
\* row below 0, one with all rows at 0) and a factor whose maximum is not 0
\* and is not reached by every row.
C4_Witness ==
    /\ result = "scored"
    /\ \E factor \in Factors : \E r \in RowsOf(df_final) :
          /\ BatchMaximum(df_final, factor) = <<0, 1>>
          /\ RawOf(r, factor)[1] < 0
    /\ \E factor \in Factors :
          /\ BatchMaximum(df_final, factor) = <<0, 1>>
          /\ \A r \in RowsOf(df_final) : RawOf(r, factor) = <<0, 1>>
    /\ \E factor \in Factors : \E r, x \in RowsOf(df_final) :
          /\ BatchMaximum(df_final, factor)[1] > 0
          /\ NormOf(r, factor) = <<1, 1>>
          /\ NormOf(x, factor) # <<1, 1>>

\* C5: a row is flagged exactly when one of its delta_10s, delta_30s,
\* delta_1m is strictly greater than 1.5 times the mean over the batch of
\* 0.2*delta_10s + 0.3*delta_30s + 0.5*delta_1m; no row of a batch whose
\* deltas are all 0 is flagged.
C5_BurstFlag ==
    result = "scored" =>
        LET n == Len(df_final)
            RECURSIVE TenthsUpTo(_)
            TenthsUpTo(k) == IF k = 0 THEN 0 ELSE TenthsUpTo(k - 1) + Tenths(df_final[k])
            total == TenthsUpTo(n)
        IN  \A r \in RowsOf(df_final) :
                (r.volume_power = "VOLUME BURST") <=>
                    \E d \in {r.vol_10s, r.vol_30s, r.vol_1m} : 20 * n * d > 3 * total

\* C6: the frame returned is the scored input rows ordered by composite score
\* descending, rows of equal score in their input order.
C6_StableDescending ==
    [][(pc = "score" /\ pc' = "idle") =>
          /\ Len(df_final') = Len(data)
          /\ \A k \in 1..Len(data) : \E j \in 1..Len(data) :
                /\ df_final'[j].index = k - 1
                /\ df_final'[j].symbol = data[k].symbol
                /\ df_final'[j].volume = data[k].volume
                /\ df_final'[j].vol_1m = data[k].vol_1m
          /\ \A j, k \in 1..Len(data) : j < k =>
                \/ RatLess(df_final'[k].score, df_final'[j].score)
                \/ /\ df_final'[k].score = df_final'[j].score
                   /\ df_final'[j].index < df_final'[k].index]_vars

\* C7: when no raw input of the batch is negative, every composite score is
\* in [0, 1]; a composite score above 1 needs a negative raw input.
C7_ScoreRange ==
    result = "scored" =>
        /\ NoNegativeInput(df_final) =>
              \A r \in RowsOf(df_final) : r.score[1] >= 0 /\ r.score[1] <= r.score[2]
        /\ (\E r \in RowsOf(df_final) : r.score[1] > r.score[2]) => ~NoNegativeInput(df_final)

\* C7 witness: a scored batch without negative input in which one row has
\* every factor at the batch maximum (score 1) and another scores strictly
\* between 0 and 1.
C7_Witness ==
    /\ result = "scored"
    /\ NoNegativeInput(df_final)
    /\ \E r, x \in RowsOf(df_final) :
          /\ r.score = <<1, 1>>
          /\ x.score[1] > 0
          /\ x.score[1] < x.score[2]

====
